---- MODULE Spec2Model ----
(***************************************************************************)
(* A model of the CppProlog core (src/src/prolog): the term model, the     *)
(* substitution operations and unification (unification.cpp), the clause   *)
(* database (database.cpp), clause renaming (clause.cpp), the built-in     *)
(* handlers (builtin_predicates.cpp) and the resolver (resolver.cpp).      *)
(*                                                                         *)
(* Terms are records with the same fields for every kind, so that any two  *)
(* terms can be compared:                                                  *)
(*   k  the TermType tag    n  name / functor     v  numeric value         *)
(*   a  arguments / list elements      t  <<>> or <<tail>> of a List       *)
(***************************************************************************)
EXTENDS Integers, Sequences, FiniteSets, TLC

VARIABLES
    clauses_,               \* Database::clauses_
    index_,                 \* Database::index_ : "f/n" -> positions
    first_arg_index_,       \* Database::first_arg_index_
    current_depth_,         \* Resolver::current_depth_
    termination_requested_, \* Resolver::termination_requested_
    rand_calls,             \* number of rand() calls made so far by the process
    run,                    \* the last query: its goals, callback and outcome
    previous,               \* the query before the last one
    lab                     \* inputs and output of the last unification-library call

vars == <<clauses_, index_, first_arg_index_, current_depth_,
          termination_requested_, rand_calls, run, previous, lab>>

-----------------------------------------------------------------------------
(* Term model: term.h / term.cpp *)

makeAtom(name) == [k |-> "atom", n |-> name, v |-> 0, d |-> 1, a |-> <<>>, t |-> <<>>]

makeVariable(name) == [k |-> "var", n |-> name, v |-> 0, d |-> 1, a |-> <<>>, t |-> <<>>]

makeInteger(value) == [k |-> "int", n |-> "", v |-> value, d |-> 1, a |-> <<>>, t |-> <<>>]

\* A double is the exact fraction v / d in lowest terms, d > 0; the values
\* met here are small enough for double arithmetic to be exact on them.
RECURSIVE GCD(_, _)
GCD(x, y) == IF y = 0 THEN x ELSE GCD(y, x % y)

Abs(x) == IF x < 0 THEN -x ELSE x

Double(n, d) ==
    LET g == GCD(Abs(n), Abs(d))
    IN [n |-> (IF d < 0 THEN -n ELSE n) \div g, d |-> Abs(d) \div g]

makeFloat(value) == [k |-> "float", n |-> "", v |-> value.n, d |-> value.d, a |-> <<>>, t |-> <<>>]

makeCompound(functor, arguments) ==
    [k |-> "compound", n |-> functor, v |-> 0, d |-> 1, a |-> arguments, t |-> <<>>]

\* makeList(elements, tail): `tail` is <<>> for the null tail pointer
makeList(elements, tail) ==
    [k |-> "list", n |-> "", v |-> 0, d |-> 1, a |-> elements, t |-> tail]

\* The value standing for a computation that never returns: the recursion
\* of applySubstitution or dereference re-entered on a variable it is
\* already expanding.
Bottom == [k |-> "bottom", n |-> "", v |-> 0, d |-> 1, a |-> <<>>, t |-> <<>>]

RECURSIVE Diverges(_)
Diverges(term) ==
    \/ term.k = "bottom"
    \/ \E i \in 1..Len(term.a) : Diverges(term.a[i])
    \/ \E i \in 1..Len(term.t) : Diverges(term.t[i])

\* Substitution = std::unordered_map<std::string, TermPtr>
EmptySubst == [x \in {} |-> Bottom]

Bind(subst, name, term) ==
    [x \in (DOMAIN subst) \cup {name} |-> IF x = name THEN term ELSE subst[x]]

-----------------------------------------------------------------------------
(* Unification: unification.cpp *)

\* dereference follows variable bindings; `seen` holds the variables already
\* followed, a repeat means the recursion never ends.
RECURSIVE DerefFrom(_, _, _)
DerefFrom(term, subst, seen) ==
    IF term.k = "var" /\ term.n \in DOMAIN subst
    THEN IF term.n \in seen THEN Bottom
         ELSE DerefFrom(subst[term.n], subst, seen \cup {term.n})
    ELSE term

dereference(term, subst) == DerefFrom(term, subst, {})

RECURSIVE ApplyFrom(_, _, _)
ApplyFrom(term, subst, path) ==
    CASE term.k = "var" ->
            IF term.n \in DOMAIN subst
            THEN IF term.n \in path THEN Bottom
                 ELSE ApplyFrom(subst[term.n], subst, path \cup {term.n})
            ELSE term
      [] term.k = "compound" ->
            makeCompound(term.n, [i \in 1..Len(term.a) |-> ApplyFrom(term.a[i], subst, path)])
      [] term.k = "list" ->
            makeList([i \in 1..Len(term.a) |-> ApplyFrom(term.a[i], subst, path)],
                     [i \in 1..Len(term.t) |-> ApplyFrom(term.t[i], subst, path)])
      [] OTHER -> term

applySubstitution(term, subst) == ApplyFrom(term, subst, {})

applySubstitutionInPlace(terms, subst) ==
    [i \in 1..Len(terms) |-> applySubstitution(terms[i], subst)]

RECURSIVE occursCheck(_, _)

\* an occurs check that does not look into list tails
occursCheckSkippingTails(var, term) ==
    CASE term.k = "var" -> term.n = var
      [] term.k \in {"compound", "list"} ->
            \E i \in 1..Len(term.a) : occursCheck(var, term.a[i])
      [] OTHER -> FALSE

\* Unification::occursCheck
occursCheck(var, term) ==
    CASE term.k = "var" -> term.n = var
      [] term.k = "compound" -> \E i \in 1..Len(term.a) : occursCheck(var, term.a[i])
      [] term.k = "list" ->
            \/ \E i \in 1..Len(term.a) : occursCheck(var, term.a[i])
            \/ \E i \in 1..Len(term.t) : occursCheck(var, term.t[i])
      [] OTHER -> FALSE

\* The depth of nested unifyInternal calls the call stack holds before the
\* process dies of stack exhaustion.
MaxStack == 12

\* unifyInternal mutates `subst` in place and reports success; the result is
\* [ok, s, dead]: the success flag, the substitution as left behind, and
\* whether the recursion ran out of stack.
RECURSIVE unifyInternal(_, _, _, _)
RECURSIVE unifyArgs(_, _, _, _, _)
unifyArgs(as1, as2, i, subst, fuel) ==
    IF i > Len(as1) THEN [ok |-> TRUE, s |-> subst, dead |-> FALSE]
    ELSE LET r == unifyInternal(as1[i], as2[i], subst, fuel)
         IN IF r.ok THEN unifyArgs(as1, as2, i + 1, r.s, fuel) ELSE r

unifyInternal(term1, term2, subst, fuel) ==
    LET t1 == dereference(term1, subst)
        t2 == dereference(term2, subst)
        fail == [ok |-> FALSE, s |-> subst, dead |-> FALSE]
        succeed == [ok |-> TRUE, s |-> subst, dead |-> FALSE]
    IN
    IF fuel = 0 \/ t1.k = "bottom" \/ t2.k = "bottom"
    THEN [ok |-> FALSE, s |-> subst, dead |-> TRUE]
    ELSE IF t1.k = "var" /\ t2.k = "var"
    THEN IF t1.n = t2.n THEN succeed
         ELSE [ok |-> TRUE, s |-> Bind(subst, t1.n, t2), dead |-> FALSE]
    ELSE IF t1.k = "var"
    THEN IF occursCheck(t1.n, t2) THEN fail
         ELSE [ok |-> TRUE, s |-> Bind(subst, t1.n, t2), dead |-> FALSE]
    ELSE IF t2.k = "var"
    THEN IF occursCheck(t2.n, t1) THEN fail
         ELSE [ok |-> TRUE, s |-> Bind(subst, t2.n, t1), dead |-> FALSE]
    ELSE IF t1.k # t2.k THEN fail
    ELSE CASE t1.k = "atom" -> IF t1.n = t2.n THEN succeed ELSE fail
           [] t1.k = "int" -> IF t1.v = t2.v THEN succeed ELSE fail
           [] t1.k = "float" -> IF t1.v = t2.v /\ t1.d = t2.d THEN succeed ELSE fail
           [] t1.k = "compound" ->
                 IF t1.n # t2.n \/ Len(t1.a) # Len(t2.a) THEN fail
                 ELSE unifyArgs(t1.a, t2.a, 1, subst, fuel - 1)
           [] t1.k = "list" ->
                 IF Len(t1.a) # Len(t2.a) THEN fail
                 ELSE LET r == unifyArgs(t1.a, t2.a, 1, subst, fuel - 1)
                      IN IF ~r.ok THEN r
                         ELSE IF Len(t1.t) = 1 /\ Len(t2.t) = 1
                              THEN unifyInternal(t1.t[1], t2.t[1], r.s, fuel - 1)
                         ELSE IF Len(t1.t) = 0 /\ Len(t2.t) = 0 THEN r
                         ELSE [ok |-> FALSE, s |-> r.s, dead |-> FALSE]
           [] OTHER -> fail

\* unify(term1, term2, subst): the caller's substitution is r.s whether or
\* not the call succeeded.
unifyIn(term1, term2, subst) == unifyInternal(term1, term2, subst, MaxStack)

\* unify(term1, term2): from a fresh empty substitution
unify(term1, term2) == unifyIn(term1, term2, EmptySubst)

compose(s1, s2) ==
    LET result == [x \in (DOMAIN s1) \cup (DOMAIN s2) |->
                      IF x \in DOMAIN s2 THEN applySubstitution(s2[x], s1) ELSE s1[x]]
    IN [x \in DOMAIN result |-> applySubstitution(result[x], s2)]

-----------------------------------------------------------------------------
(* Clauses and the database: clause.h, clause.cpp, database.cpp *)

makeFact(head) == [head |-> head, body |-> <<>>]

makeRule(head, body) == [head |-> head, body |-> body]

\* Clause::rename: every variable name gets the suffix appended
RECURSIVE renameTerm(_, _)
\* a renaming that leaves the tail of a list as it is
renameTermKeepingTails(term, suffix) ==
    CASE term.k = "var" -> makeVariable(term.n \o suffix)
      [] term.k = "compound" ->
            makeCompound(term.n, [i \in 1..Len(term.a) |-> renameTerm(term.a[i], suffix)])
      [] term.k = "list" ->
            makeList([i \in 1..Len(term.a) |-> renameTerm(term.a[i], suffix)], term.t)
      [] OTHER -> term

renameTerm(term, suffix) ==
    CASE term.k = "var" -> makeVariable(term.n \o suffix)
      [] term.k = "compound" ->
            makeCompound(term.n, [i \in 1..Len(term.a) |-> renameTerm(term.a[i], suffix)])
      [] term.k = "list" ->
            makeList([i \in 1..Len(term.a) |-> renameTerm(term.a[i], suffix)],
                     [i \in 1..Len(term.t) |-> renameTerm(term.t[i], suffix)])
      [] OTHER -> term

rename(clause, suffix) ==
    [head |-> renameTerm(clause.head, suffix),
     body |-> [i \in 1..Len(clause.body) |-> renameTerm(clause.body[i], suffix)]]

makeKey(functor, arity) == functor \o "/" \o ToString(arity)

extractFunctorArity(term) ==
    CASE term.k = "atom" -> makeKey(term.n, 0)
      [] term.k = "compound" -> makeKey(term.n, Len(term.a))
      [] OTHER -> ""

\* std::to_string(double): "%f", six digits after the point, the value
\* rounded to the nearest
DoubleToString(n, d) ==
    LET magnitude == IF n < 0 THEN 0 - n ELSE n
        whole == (magnitude * 1000000) \div d
        rest == (magnitude * 1000000) % d
        micros == IF 2 * rest > d \/ (2 * rest = d /\ whole % 2 = 1) THEN whole + 1 ELSE whole
        digits == micros % 1000000
        zeros == IF digits < 10 THEN "00000" ELSE IF digits < 100 THEN "0000"
                 ELSE IF digits < 1000 THEN "000" ELSE IF digits < 10000 THEN "00"
                 ELSE IF digits < 100000 THEN "0" ELSE ""
    IN (IF n < 0 THEN "-" ELSE "") \o ToString(micros \div 1000000) \o "."
           \o zeros \o ToString(digits)

makeFirstArgKey(functor, arity, first_arg) ==
    LET base_key == makeKey(functor, arity)
    IN CASE first_arg.k = "atom" -> base_key \o ":" \o first_arg.n
         [] first_arg.k = "int" -> base_key \o ":" \o ToString(first_arg.v)
         [] first_arg.k = "float" -> base_key \o ":" \o DoubleToString(first_arg.v, first_arg.d)
         [] first_arg.k = "compound" ->
               base_key \o ":" \o first_arg.n \o "/" \o ToString(Len(first_arg.a))
         [] OTHER -> ""

extractFirstArgKey(head) ==
    IF head.k # "compound" THEN ""
    ELSE IF Len(head.a) = 0 THEN ""
    ELSE makeFirstArgKey(head.n, Len(head.a), head.a[1])

\* index[key].push_back(position), creating the entry when absent
IndexPush(index, key, position) ==
    [x \in (DOMAIN index) \cup {key} |->
        IF x = key
        THEN (IF key \in DOMAIN index THEN Append(index[key], position) ELSE <<position>>)
        ELSE index[x]]

\* Database::findMatchingClauses on a database given as <<clauses_, index_>>;
\* positions are 0-based as in the code
findMatchingClauses(db, goal) ==
    LET key == extractFunctorArity(goal)
    IN IF key \in DOMAIN db.index
       THEN [i \in 1..Len(db.index[key]) |-> db.clauses[db.index[key][i] + 1]]
       ELSE <<>>

\* Database::findClausesWithFirstArg as a function of the database
findClausesWithFirstArgIn(db, functor, arity, first_arg) ==
    LET key == makeFirstArgKey(functor, arity, first_arg)
    IN IF key \in DOMAIN db.first_arg_index
       THEN [i \in 1..Len(db.first_arg_index[key]) |->
                db.clauses[db.first_arg_index[key][i] + 1]]
       ELSE <<>>

-----------------------------------------------------------------------------
(* Built-in table: builtin_predicates.cpp, registerBuiltins *)

BuiltinKeys ==
    {"is/2", "+/3", "-/3", "*/3", "//3",
     "=/2", "\\=/2", "==/2", "\\==/2", "</2", ">/2", "=</2", ">=/2",
     "append/3", "member/2", "length/2",
     "var/1", "nonvar/1", "atom/1", "number/1", "integer/1", "float/1",
     "compound/1", "ground/1",
     "!/0", "fail/0", "true/0", "\\+/1",
     "write/1", "nl/0"}

isBuiltin(functor, arity) == makeKey(functor, arity) \in BuiltinKeys

-----------------------------------------------------------------------------
(* The resolver: resolver.cpp.                                             *)
(*                                                                         *)
(* solveGoals is a recursive procedure that reads and writes the           *)
(* resolver's fields and calls the solution callback; here it is an        *)
(* operator from the fields before the call to the fields after it:        *)
(*   st = [depth, term, rnd, calls, dead]                                  *)
(* depth = current_depth_, term = termination_requested_, rnd = the number *)
(* of rand() calls made, calls = the callback invocations so far, each     *)
(* with the bindings passed and the value returned, dead = the process     *)
(* died of unbounded recursion.  ctx = [db, max_depth, stop_at] holds what *)
(* a query does not change: the database, max_depth_ and the callback.     *)
(*                                                                         *)
(* A callback handed to a built-in is one of two lambdas, modelled as      *)
(* data: [kind |-> "goals", remaining] the resolver's lambda (resolver.cpp *)
(* 113-121) and [kind |-> "test"] not_provable's test_callback.  What the  *)
(* lambdas capture by reference travels in acc = [result, succ, st].       *)

\* rand() of the C library, never seeded: the n-th call returns the n-th
\* value of a fixed sequence, whose period exceeds any run modelled here
RandValue(n) == n

\* The user's callback: it returns false on its stop_at-th invocation
\* (stop_at = 0: it always returns true, as solve's collecting callback).
UserCallback(ctx, calls) == Len(calls) + 1 # ctx.stop_at

Died(st) == [r |-> -1, st |-> [st EXCEPT !.dead = TRUE]]

RECURSIVE solveGoals(_, _, _, _)
RECURSIVE ClauseLoop(_, _, _, _, _, _, _, _)
RECURSIVE callBuiltin(_, _, _, _, _, _, _)
RECURSIVE CallCont(_, _, _, _)
RECURSIVE MemberLoop(_, _, _, _, _, _, _)

\* invoking a callback handed to a built-in: [ret, acc]
CallCont(ctx, cont, bindings, acc) ==
    IF cont.kind = "test"
    THEN [ret |-> FALSE, acc |-> [acc EXCEPT !.succ = TRUE]]
    ELSE LET sub == solveGoals(ctx, cont.remaining, bindings, acc.st)
         IN IF sub.r >= 0
            THEN [ret |-> sub.r = 0, acc |-> [acc EXCEPT !.result = sub.r, !.st = sub.st]]
            ELSE [ret |-> FALSE, acc |-> [acc EXCEPT !.st = sub.st]]

\* BuiltinPredicates::equal
equal(ctx, args, bindings, cont, acc) ==
    LET left == applySubstitution(args[1], bindings)
        right == applySubstitution(args[2], bindings)
        unification == unifyIn(left, right, bindings)
    IN IF unification.dead THEN [ret |-> FALSE, acc |-> [acc EXCEPT !.st.dead = TRUE]]
       ELSE IF unification.ok THEN CallCont(ctx, cont, unification.s, acc)
       ELSE [ret |-> FALSE, acc |-> acc]

\* BuiltinPredicates::append: the elements of the two lists, their tails
\* dropped, unified with the third argument
append(ctx, args, bindings, cont, acc) ==
    LET list1 == applySubstitution(args[1], bindings)
        list2 == applySubstitution(args[2], bindings)
        result == applySubstitution(args[3], bindings)
        combined_list == makeList(list1.a \o list2.a, <<>>)
        unification == unifyIn(result, combined_list, bindings)
    IN IF list1.k = "list" /\ list2.k = "list"
       THEN IF unification.dead THEN [ret |-> FALSE, acc |-> [acc EXCEPT !.st.dead = TRUE]]
            ELSE IF unification.ok THEN CallCont(ctx, cont, unification.s, acc)
            ELSE [ret |-> FALSE, acc |-> acc]
       ELSE [ret |-> FALSE, acc |-> acc]

\* BuiltinPredicates::isNumber, getNumericValue
isNumber(term) == term.k \in {"int", "float"}

getNumericValue(term) == Double(term.v, term.d)

\* std::floor and the truncation std::fmod uses, on a fraction
Floor(x) == x.n \div x.d

Trunc(x) == IF x.n >= 0 THEN x.n \div x.d ELSE -((-x.n) \div x.d)

\* BuiltinPredicates::evaluateArithmeticExpression: [has, value]
RECURSIVE evaluateArithmeticExpression(_, _)
evaluateArithmeticExpression(expr, bindings) ==
    LET term == applySubstitution(expr, bindings)
        none == [has |-> FALSE, value |-> Double(0, 1)]
        some(n, d) == [has |-> TRUE, value |-> Double(n, d)]
        left_val == evaluateArithmeticExpression(term.a[1], bindings)
        right_val == evaluateArithmeticExpression(term.a[2], bindings)
        l == left_val.value
        r == right_val.value
        val == evaluateArithmeticExpression(term.a[1], bindings)
    IN IF isNumber(term) THEN [has |-> TRUE, value |-> getNumericValue(term)]
       ELSE IF term.k = "compound" /\ Len(term.a) = 2
       THEN IF ~left_val.has \/ ~right_val.has THEN none
            ELSE CASE term.n = "+" -> some(l.n * r.d + r.n * l.d, l.d * r.d)
                   [] term.n = "-" -> some(l.n * r.d - r.n * l.d, l.d * r.d)
                   [] term.n = "*" -> some(l.n * r.n, l.d * r.d)
                   [] term.n = "/" -> IF r.n = 0 THEN none ELSE some(l.n * r.d, l.d * r.n)
                   [] term.n = "//" ->
                         IF r.n = 0 THEN none
                         ELSE some(Floor(Double(l.n * r.d, l.d * r.n)), 1)
                   [] term.n = "mod" ->
                         IF r.n = 0 THEN none
                         ELSE some(l.n * r.d
                                     - Trunc(Double(l.n * r.d, l.d * r.n)) * r.n * l.d,
                                   l.d * r.d)
                   [] OTHER -> none
       ELSE IF term.k = "compound" /\ Len(term.a) = 1
       THEN IF ~val.has THEN none
            ELSE CASE term.n = "-" -> some(-val.value.n, val.value.d)
                   [] term.n = "abs" -> some(Abs(val.value.n), val.value.d)
                   [] OTHER -> none
       ELSE none

\* BuiltinPredicates::unifyWithNumber: the result of unify(term, number_term,
\* bindings); the values here are all within the int64_t range
unifyWithNumber(term, value, bindings) ==
    LET number_term == IF Floor(value) * value.d = value.n
                       THEN makeInteger(value.n \div value.d)
                       ELSE makeFloat(value)
    IN unifyIn(term, number_term, bindings)

\* BuiltinPredicates::is
is(ctx, args, bindings, cont, acc) ==
    LET left == applySubstitution(args[1], bindings)
        right == applySubstitution(args[2], bindings)
        result == evaluateArithmeticExpression(right, bindings)
        unification == unifyWithNumber(left, result.value, bindings)
    IN IF ~result.has THEN [ret |-> FALSE, acc |-> acc]
       ELSE IF unification.ok THEN CallCont(ctx, cont, unification.s, acc)
       ELSE [ret |-> FALSE, acc |-> acc]

\* BuiltinPredicates::getTermOrder
getTermOrder(term) ==
    CASE term.k = "var" -> 1
      [] term.k \in {"int", "float"} -> 2
      [] term.k = "atom" -> 3
      [] term.k = "compound" -> 5
      [] term.k = "list" -> 6
      [] OTHER -> 7

\* the names of the model in the order of std::string::compare
NameOrder == <<"X", "Y", "a", "b", "f", "g">>

\* the sign of l.compare(r)
StringCompare(l, r) ==
    LET rank(name) == CHOOSE i \in 1..Len(NameOrder) : NameOrder[i] = name
    IN IF rank(l) < rank(r) THEN -1 ELSE IF rank(l) > rank(r) THEN 1 ELSE 0

\* what a comparator does when the right term is of another class than the
\* left one: r->as<T>() is a null pointer and r->as<T>()->value() has no
\* defined behaviour; `undefined` is what the build makes of it, the death
\* of the process or a value returned
Undefined(undefined) == undefined

\* BuiltinPredicates::compareTerms: [err, c], err when the process died, c
\* the sign of the value returned
RECURSIVE compareTerms(_, _, _)
RECURSIVE compareArguments(_, _, _, _)
compareArguments(ls, rs, i, undefined) ==
    IF i > Len(ls) THEN [err |-> FALSE, c |-> 0]
    ELSE LET argCmp == compareTerms(ls[i], rs[i], undefined)
         IN IF argCmp.err \/ argCmp.c # 0 THEN argCmp
            ELSE compareArguments(ls, rs, i + 1, undefined)

\* std::lexicographical_compare(ls, rs, compareTerms(a, b) < 0): [err, less]
RECURSIVE lexicographical_compare(_, _, _, _)
lexicographical_compare(ls, rs, i, undefined) ==
    IF i > Len(ls) \/ i > Len(rs) THEN [err |-> FALSE, less |-> i > Len(ls) /\ i <= Len(rs)]
    ELSE LET forth == compareTerms(ls[i], rs[i], undefined)
             back == compareTerms(rs[i], ls[i], undefined)
         IN IF forth.err THEN [err |-> TRUE, less |-> FALSE]
            ELSE IF forth.c < 0 THEN [err |-> FALSE, less |-> TRUE]
            ELSE IF back.err THEN [err |-> TRUE, less |-> FALSE]
            ELSE IF back.c < 0 THEN [err |-> FALSE, less |-> FALSE]
            ELSE lexicographical_compare(ls, rs, i + 1, undefined)

compareTerms(left, right, undefined) ==
    LET leftOrder == getTermOrder(left)
        rightOrder == getTermOrder(right)
        sign(n) == [err |-> FALSE, c |-> IF n < 0 THEN -1 ELSE IF n > 0 THEN 1 ELSE 0]
        result == lexicographical_compare(left.a, right.a, 1, undefined)
        reverse_result == lexicographical_compare(right.a, left.a, 1, undefined)
    IN IF leftOrder # rightOrder THEN sign(leftOrder - rightOrder)
       ELSE CASE left.k = "var" -> sign(StringCompare(left.n, right.n))
              [] left.k = "int" ->
                    IF right.k # "int" THEN Undefined(undefined)
                    ELSE sign(left.v - right.v)
              [] left.k = "float" ->
                    IF right.k # "float" THEN Undefined(undefined)
                    ELSE sign(left.v * right.d - right.v * left.d)
              [] left.k = "atom" -> sign(StringCompare(left.n, right.n))
              [] left.k = "compound" ->
                    IF StringCompare(left.n, right.n) # 0
                    THEN sign(StringCompare(left.n, right.n))
                    ELSE IF Len(left.a) # Len(right.a)
                    THEN sign(Len(left.a) - Len(right.a))
                    ELSE compareArguments(left.a, right.a, 1, undefined)
              [] left.k = "list" ->
                    IF result.err THEN [err |-> TRUE, c |-> 0]
                    ELSE IF result.less THEN sign(-1)
                    ELSE IF reverse_result.err THEN [err |-> TRUE, c |-> 0]
                    ELSE IF reverse_result.less THEN sign(1)
                    ELSE IF left.t # <<>> /\ right.t # <<>>
                    THEN compareTerms(left.t[1], right.t[1], undefined)
                    ELSE IF left.t # <<>> THEN sign(1)
                    ELSE IF right.t # <<>> THEN sign(-1)
                    ELSE sign(0)
              [] OTHER -> sign(0)

\* BuiltinPredicates::length
length(ctx, args, bindings, cont, acc) ==
    LET list_term == applySubstitution(args[1], bindings)
        length_term == applySubstitution(args[2], bindings)
        counted == unifyWithNumber(length_term, Double(Len(list_term.a), 1), bindings)
        generated_list ==
            makeList([i \in 1..length_term.v |-> makeVariable("_G" \o ToString(i - 1))], <<>>)
        unification == unifyIn(list_term, generated_list, bindings)
    IN IF list_term.k = "list"
       THEN IF counted.ok THEN CallCont(ctx, cont, counted.s, acc)
            ELSE [ret |-> FALSE, acc |-> acc]
       ELSE IF length_term.k = "int" /\ length_term.v >= 0 /\ list_term.k = "var"
       THEN IF unification.ok THEN CallCont(ctx, cont, unification.s, acc)
            ELSE [ret |-> FALSE, acc |-> acc]
       ELSE [ret |-> FALSE, acc |-> acc]

\* BuiltinPredicates::notEqual: the callback gets `bindings` as the failed
\* unification left them
notEqual(ctx, args, bindings, cont, acc) ==
    LET left == applySubstitution(args[1], bindings)
        right == applySubstitution(args[2], bindings)
        unification == unifyIn(left, right, bindings)
    IN IF unification.dead THEN [ret |-> FALSE, acc |-> [acc EXCEPT !.st.dead = TRUE]]
       ELSE IF unification.ok THEN [ret |-> FALSE, acc |-> acc]
       ELSE CallCont(ctx, cont, unification.s, acc)

\* a member/2 that goes on to the next element whatever its callback returns
MemberLoopIgnoringStop(ctx, element, elements, i, bindings, cont, acc) ==
    IF i > Len(elements) THEN [ret |-> TRUE, acc |-> acc]
    ELSE LET unification == unifyIn(element, elements[i], bindings)
         IN IF unification.ok /\ ~unification.dead
            THEN MemberLoop(ctx, element, elements, i + 1, bindings, cont,
                            CallCont(ctx, cont, unification.s, acc).acc)
            ELSE MemberLoop(ctx, element, elements, i + 1, bindings, cont, acc)

\* BuiltinPredicates::member, the loop over l->elements() from element i
MemberLoop(ctx, element, elements, i, bindings, cont, acc) ==
    IF i > Len(elements) THEN [ret |-> TRUE, acc |-> acc]
    ELSE LET unification == unifyIn(element, elements[i], bindings)
         IN IF unification.dead
            THEN [ret |-> FALSE, acc |-> [acc EXCEPT !.st.dead = TRUE]]
            ELSE IF unification.ok
            THEN LET c == CallCont(ctx, cont, unification.s, acc)
                 IN IF ~c.ret THEN [ret |-> FALSE, acc |-> c.acc]
                    ELSE MemberLoop(ctx, element, elements, i + 1, bindings, cont, c.acc)
            ELSE MemberLoop(ctx, element, elements, i + 1, bindings, cont, acc)

member(ctx, args, bindings, cont, acc) ==
    LET element == applySubstitution(args[1], bindings)
        list == applySubstitution(args[2], bindings)
    IN IF list.k = "list"
       THEN MemberLoop(ctx, element, list.a, 1, bindings, cont, acc)
       ELSE [ret |-> FALSE, acc |-> acc]

\* BuiltinPredicates::true_pred
true_pred(ctx, args, bindings, cont, acc) == CallCont(ctx, cont, bindings, acc)

\* BuiltinPredicates::fail
fail(ctx, args, bindings, cont, acc) == [ret |-> FALSE, acc |-> acc]

\* BuiltinPredicates::cut: calls the callback and returns true whatever the
\* callback returned
cut(ctx, args, bindings, cont, acc) ==
    [ret |-> TRUE, acc |-> CallCont(ctx, cont, bindings, acc).acc]

\* BuiltinPredicates::not_provable: the inner goal is run only when it is a
\* built-in, with test_callback and a goal_succeeded flag of its own
not_provable(ctx, args, bindings, cont, acc) ==
    LET goal == applySubstitution(args[1], bindings)
        testable == \/ goal.k = "compound" /\ isBuiltin(goal.n, Len(goal.a))
                    \/ goal.k = "atom" /\ isBuiltin(goal.n, 0)
        inner == callBuiltin(ctx, goal.n, Len(goal.a), goal.a, bindings,
                             [kind |-> "test"], [acc EXCEPT !.succ = FALSE])
        after == [acc EXCEPT !.st = inner.acc.st]
    IN IF ~testable THEN [ret |-> FALSE, acc |-> acc]
       ELSE IF after.st.dead THEN [ret |-> FALSE, acc |-> after]
       ELSE IF ~inner.acc.succ THEN CallCont(ctx, cont, bindings, after)
       ELSE [ret |-> FALSE, acc |-> after]

\* BuiltinPredicates::callBuiltin.  The handlers of the table that no goal
\* of GoalUniverse calls are not modelled.
callBuiltin(ctx, functor, arity, args, bindings, cont, acc) ==
    LET key == makeKey(functor, arity)
    IN CASE key = "is/2" -> is(ctx, args, bindings, cont, acc)
         [] key = "=/2" -> equal(ctx, args, bindings, cont, acc)
         [] key = "\\=/2" -> notEqual(ctx, args, bindings, cont, acc)
         [] key = "member/2" -> member(ctx, args, bindings, cont, acc)
         [] key = "length/2" -> length(ctx, args, bindings, cont, acc)
         [] key = "append/3" -> append(ctx, args, bindings, cont, acc)
         [] key = "true/0" -> true_pred(ctx, args, bindings, cont, acc)
         [] key = "fail/0" -> fail(ctx, args, bindings, cont, acc)
         [] key = "!/0" -> cut(ctx, args, bindings, cont, acc)
         [] key = "\\+/1" -> not_provable(ctx, args, bindings, cont, acc)
         [] OTHER -> [ret |-> FALSE, acc |-> acc]

\* resolver.cpp 101-148: a goal that names a built-in
BuiltinResult(out) == [r |-> IF out.ret THEN out.acc.result ELSE -1, st |-> out.acc.st]

solveBuiltin(ctx, current_goal, remaining_goals, bindings, st) ==
    BuiltinResult(callBuiltin(ctx, current_goal.n, Len(current_goal.a), current_goal.a,
                              bindings, [kind |-> "goals", remaining |-> remaining_goals],
                              [result |-> -1, succ |-> FALSE, st |-> st]))

\* a loop that gives the whole search up when a branch exceeds the depth limit
ClauseLoopAbortingAtLimit(ctx, matching_clauses, i, current_goal, remaining_goals, bindings, result, st) ==
    IF i > Len(matching_clauses) \/ st.term \/ st.dead
    THEN [r |-> result, st |-> st]
    ELSE IF st.depth + 1 > ctx.max_depth THEN [r |-> -1, st |-> [st EXCEPT !.term = TRUE]]
    ELSE
    LET depth == st.depth + 1
        suffix == "_" \o ToString(depth) \o "_" \o ToString(RandValue(st.rnd))
        st1 == [st EXCEPT !.depth = depth, !.rnd = @ + 1]
        renamed_clause == rename(matching_clauses[i], suffix)
        unification_result == unify(current_goal, renamed_clause.head)
        new_bindings == compose(bindings, unification_result.s)
        new_goals ==
            [j \in 1..Len(renamed_clause.body) |->
                applySubstitution(renamed_clause.body[j], unification_result.s)]
            \o remaining_goals
        sub == solveGoals(ctx, new_goals, new_bindings, st1)
        back == [sub.st EXCEPT !.depth = @ - 1]
    IN
    IF unification_result.dead THEN Died(st1)
    ELSE IF ~unification_result.ok
    THEN ClauseLoop(ctx, matching_clauses, i + 1, current_goal, remaining_goals,
                    bindings, result, [st1 EXCEPT !.depth = @ - 1])
    ELSE IF \/ \E x \in DOMAIN new_bindings : Diverges(new_bindings[x])
            \/ \E j \in 1..Len(new_goals) : Diverges(new_goals[j])
    THEN Died(st1)
    ELSE IF sub.r = 1 THEN [r |-> 0, st |-> back]
    ELSE ClauseLoop(ctx, matching_clauses, i + 1, current_goal, remaining_goals,
                    bindings, IF sub.r >= 0 THEN 0 ELSE result, back)

\* resolver.cpp 160-208: the loop over matching_clauses from clause i;
\* `result` is the loop's local of that name
\* a clause loop that hands the cut signal on to its caller
ClauseLoopPropagatingCut(ctx, matching_clauses, i, current_goal, remaining_goals, bindings, result, st) ==
    IF i > Len(matching_clauses) \/ st.term \/ st.dead
    THEN [r |-> result, st |-> st]
    ELSE IF st.depth + 1 > ctx.max_depth THEN [r |-> result, st |-> st]
    ELSE
    LET depth == st.depth + 1
        suffix == "_" \o ToString(depth) \o "_" \o ToString(RandValue(st.rnd))
        st1 == [st EXCEPT !.depth = depth, !.rnd = @ + 1]
        renamed_clause == rename(matching_clauses[i], suffix)
        unification_result == unify(current_goal, renamed_clause.head)
        new_bindings == compose(bindings, unification_result.s)
        new_goals ==
            [j \in 1..Len(renamed_clause.body) |->
                applySubstitution(renamed_clause.body[j], unification_result.s)]
            \o remaining_goals
        sub == solveGoals(ctx, new_goals, new_bindings, st1)
        back == [sub.st EXCEPT !.depth = @ - 1]
    IN
    IF unification_result.dead THEN Died(st1)
    ELSE IF ~unification_result.ok
    THEN ClauseLoop(ctx, matching_clauses, i + 1, current_goal, remaining_goals,
                    bindings, result, [st1 EXCEPT !.depth = @ - 1])
    ELSE IF \/ \E x \in DOMAIN new_bindings : Diverges(new_bindings[x])
            \/ \E j \in 1..Len(new_goals) : Diverges(new_goals[j])
    THEN Died(st1)
    ELSE IF sub.r = 1 THEN [r |-> 1, st |-> back]
    ELSE ClauseLoop(ctx, matching_clauses, i + 1, current_goal, remaining_goals,
                    bindings, IF sub.r >= 0 THEN 0 ELSE result, back)

ClauseLoop(ctx, matching_clauses, i, current_goal, remaining_goals, bindings, result, st) ==
    IF i > Len(matching_clauses) \/ st.term \/ st.dead
    THEN [r |-> result, st |-> st]
    ELSE IF st.depth + 1 > ctx.max_depth THEN [r |-> result, st |-> st]
    ELSE
    LET depth == st.depth + 1
        suffix == "_" \o ToString(depth) \o "_" \o ToString(RandValue(st.rnd))
        st1 == [st EXCEPT !.depth = depth, !.rnd = @ + 1]
        renamed_clause == rename(matching_clauses[i], suffix)
        unification_result == unify(current_goal, renamed_clause.head)
        new_bindings == compose(bindings, unification_result.s)
        new_goals ==
            [j \in 1..Len(renamed_clause.body) |->
                applySubstitution(renamed_clause.body[j], unification_result.s)]
            \o remaining_goals
        sub == solveGoals(ctx, new_goals, new_bindings, st1)
        back == [sub.st EXCEPT !.depth = @ - 1]
    IN
    IF unification_result.dead THEN Died(st1)
    ELSE IF ~unification_result.ok
    THEN ClauseLoop(ctx, matching_clauses, i + 1, current_goal, remaining_goals,
                    bindings, result, [st1 EXCEPT !.depth = @ - 1])
    ELSE IF \/ \E x \in DOMAIN new_bindings : Diverges(new_bindings[x])
            \/ \E j \in 1..Len(new_goals) : Diverges(new_goals[j])
    THEN Died(st1)
    ELSE IF sub.r = 1 THEN [r |-> 0, st |-> back]
    ELSE ClauseLoop(ctx, matching_clauses, i + 1, current_goal, remaining_goals,
                    bindings, IF sub.r >= 0 THEN 0 ELSE result, back)

\* Resolver::solveGoals: [r, st] with r = -1 failed, 0 success, 1 success
\* with cut.  The parameter parent_cut_level is never read and is left out.
solveGoals(ctx, goals, bindings, st) ==
    IF st.depth > ctx.max_depth THEN [r |-> -1, st |-> st]
    ELSE IF goals = <<>>
    THEN LET continue_search == UserCallback(ctx, st.calls)
             called == Append(st.calls, [bindings |-> bindings, ret |-> continue_search])
         IN [r |-> IF continue_search THEN 0 ELSE -1,
             st |-> [st EXCEPT !.calls = called,
                               !.term = IF continue_search THEN @ ELSE TRUE]]
    ELSE
    LET current_goal == applySubstitution(goals[1], bindings)
        remaining_goals == applySubstitutionInPlace(Tail(goals), bindings)
        cut_sub == solveGoals(ctx, remaining_goals, bindings, st)
        matching_clauses == findMatchingClauses(ctx.db, current_goal)
    IN
    IF \/ Diverges(current_goal)
       \/ \E j \in 1..Len(remaining_goals) : Diverges(remaining_goals[j])
    THEN Died(st)
    ELSE IF current_goal.k = "atom" /\ current_goal.n = "!"
    THEN IF cut_sub.r >= 0 THEN [r |-> 1, st |-> cut_sub.st] ELSE cut_sub
    ELSE IF current_goal.k \in {"compound", "atom"}
            /\ isBuiltin(current_goal.n, Len(current_goal.a))
    THEN solveBuiltin(ctx, current_goal, remaining_goals, bindings, st)
    ELSE IF matching_clauses = <<>> THEN [r |-> -1, st |-> st]
    ELSE ClauseLoop(ctx, matching_clauses, 1, current_goal, remaining_goals,
                    bindings, -1, st)

\* Resolver::collectVariablesFromTerm: names in order of first occurrence
RECURSIVE collectFromTerm(_, _)
RECURSIVE collectFromTerms(_, _, _)
collectFromTerms(terms, i, variables) ==
    IF i > Len(terms) THEN variables
    ELSE collectFromTerms(terms, i + 1, collectFromTerm(terms[i], variables))

collectFromTerm(term, variables) ==
    CASE term.k = "var" ->
            IF \E i \in 1..Len(variables) : variables[i] = term.n
            THEN variables ELSE Append(variables, term.n)
      [] term.k = "compound" -> collectFromTerms(term.a, 1, variables)
      [] term.k = "list" -> collectFromTerms(term.t, 1, collectFromTerms(term.a, 1, variables))
      [] OTHER -> variables

\* Resolver::filterBindings
filterBindings(bindings, queryVariables) ==
    LET kept == {queryVariables[i] : i \in 1..Len(queryVariables)} \cap DOMAIN bindings
    IN [x \in kept |-> bindings[x]]

\* a solveWithCallback that leaves current_depth_ and termination_requested_
\* as the earlier query left them
FieldsKept(depth, requested) == [depth |-> depth, term |-> requested]

\* Resolver::solveWithCallback, lines 59-63: current_depth_ = 0 and
\* termination_requested_ = false, whatever the fields held
FieldsReset(depth, requested) == [depth |-> 0, term |-> FALSE]

\* Resolver::solveWithCallback(goals, callback): the fields are reset, then
\* solveGoals runs from the empty bindings
solveWithCallback(db, max_depth, rnd, goals, stop_at) ==
    solveGoals([db |-> db, max_depth |-> max_depth, stop_at |-> stop_at],
               goals, EmptySubst,
               [depth |-> FieldsReset(current_depth_, termination_requested_).depth,
                term |-> FieldsReset(current_depth_, termination_requested_).term,
                rnd |-> rnd, calls |-> <<>>, dead |-> FALSE])

-----------------------------------------------------------------------------
(* The unification library driven directly, as tests/test_unification.cpp  *)
(* does: a client picks two terms and a starting substitution and calls    *)
(* unify, or picks two substitutions and calls compose.                    *)

VarNames == {"X", "Y"}

Leaves == {makeAtom("a"), makeAtom("b"), makeInteger(1)}
              \cup {makeVariable(x) : x \in VarNames}

Inner ==
    {makeVariable(x) : x \in VarNames}
        \cup {makeAtom("a")}
        \cup {makeCompound("f", <<l>>) : l \in {makeVariable("X"), makeVariable("Y"), makeAtom("a")}}
        \cup {makeList(<<makeVariable("X")>>, <<>>),
              makeList(<<makeAtom("a")>>, <<makeVariable("X")>>)}

Lists ==
    {makeList(<<>>, <<>>),
     makeList(<<makeAtom("a")>>, <<>>),
     makeList(<<makeVariable("Y")>>, <<>>),
     makeList(<<makeAtom("a"), makeAtom("b")>>, <<>>),
     makeList(<<makeVariable("X"), makeVariable("Y")>>, <<>>),
     makeList(<<makeVariable("X")>>, <<makeVariable("Y")>>),
     makeList(<<makeVariable("Y")>>, <<makeVariable("X")>>),
     makeList(<<makeAtom("a")>>, <<makeList(<<makeAtom("b")>>, <<>>)>>)}

\* the terms the client unifies
TermUniverse ==
    Leaves \cup Inner \cup Lists
        \cup {makeCompound("f", <<makeAtom("b")>>)}
        \cup {makeCompound("g", <<s, u>>) : s \in Inner, u \in Inner}

\* the substitutions the client starts from, all acyclic
StartSubsts ==
    {EmptySubst,
     Bind(EmptySubst, "X", makeAtom("a")),
     Bind(EmptySubst, "X", makeVariable("Y")),
     Bind(EmptySubst, "Y", makeCompound("f", <<makeAtom("a")>>)),
     Bind(Bind(EmptySubst, "X", makeVariable("Y")), "Y", makeAtom("b"))}

\* the substitutions the client composes
ComposeSubsts ==
    StartSubsts
        \cup {Bind(EmptySubst, "X", makeAtom("b")),
              Bind(EmptySubst, "Y", makeVariable("X")),
              Bind(EmptySubst, "Y", makeAtom("a")),
              Bind(EmptySubst, "Y", makeCompound("f", <<makeVariable("X")>>)),
              Bind(Bind(EmptySubst, "X", makeAtom("a")), "Y", makeAtom("b"))}

LabIdle ==
    [op |-> "idle", t1 |-> Bottom, t2 |-> Bottom, s1 |-> EmptySubst, s2 |-> EmptySubst,
     done |-> FALSE, ok |-> FALSE, dead |-> FALSE, out |-> EmptySubst]

RunIdle ==
    [op |-> "idle", goals |-> <<>>, stop_at |-> 0, calls |-> <<>>,
     solutions |-> <<>>, returned |-> FALSE, result |-> 0, rnd0 |-> 0, found |-> <<>>]

ResolverIdle ==
    /\ clauses_ = <<>>
    /\ index_ = EmptySubst
    /\ first_arg_index_ = EmptySubst
    /\ current_depth_ = 0
    /\ termination_requested_ = FALSE
    /\ rand_calls = 0
    /\ run = RunIdle
    /\ previous = RunIdle

ResolverUnchanged ==
    UNCHANGED <<clauses_, index_, first_arg_index_, current_depth_,
                termination_requested_, rand_calls, run, previous>>

InitUnify ==
    /\ ResolverIdle
    /\ \E t1 \in TermUniverse, t2 \in TermUniverse, s \in StartSubsts :
          lab = [LabIdle EXCEPT !.op = "unify", !.t1 = t1, !.t2 = t2, !.s1 = s]

\* std::optional<Substitution> r = Unification::unify(t1, t2, s)
CallUnify ==
    /\ lab.op = "unify" /\ ~lab.done
    /\ LET r == unifyIn(lab.t1, lab.t2, lab.s1)
       IN lab' = [lab EXCEPT !.done = TRUE, !.ok = r.ok, !.dead = r.dead, !.out = r.s]
    /\ ResolverUnchanged

NextUnify == CallUnify

SpecUnify == InitUnify /\ [][NextUnify]_vars

InitCompose ==
    /\ ResolverIdle
    /\ \E t \in TermUniverse, s1 \in ComposeSubsts, s2 \in ComposeSubsts :
          lab = [LabIdle EXCEPT !.op = "compose", !.t1 = t, !.s1 = s1, !.s2 = s2]

\* Substitution r = Unification::compose(s1, s2)
CallCompose ==
    /\ lab.op = "compose" /\ ~lab.done
    /\ lab' = [lab EXCEPT !.done = TRUE, !.ok = TRUE, !.out = compose(lab.s1, lab.s2)]
    /\ ResolverUnchanged

NextCompose == CallCompose

SpecCompose == InitCompose /\ [][NextCompose]_vars

(* Clause::rename driven directly: a client picks a clause and a suffix.    *)

RenameHeads ==
    {makeCompound("p", <<makeVariable("X")>>),
     makeCompound("t", <<makeVariable("X"), makeVariable("X")>>),
     makeCompound("t", <<makeVariable("X"), makeVariable("Y")>>),
     makeCompound("t", <<makeAtom("a"), makeInteger(1)>>),
     makeCompound("t", <<makeVariable("_"), makeVariable("_")>>),
     makeCompound("h", <<makeList(<<makeVariable("H")>>, <<makeVariable("T")>>),
                         makeVariable("H")>>),
     makeCompound("h", <<makeCompound("f", <<makeVariable("Y")>>),
                         makeList(<<makeVariable("X"), makeVariable("Y")>>, <<>>)>>),
     makeAtom("n")}

RenameBodies ==
    {<<>>,
     <<makeCompound("p", <<makeVariable("X")>>)>>,
     <<makeCompound("p", <<makeVariable("Y")>>), makeAtom("!")>>,
     <<makeCompound("t", <<makeVariable("T"), makeVariable("Z")>>),
       makeCompound("p", <<makeVariable("Z")>>)>>,
     <<makeCompound("p", <<makeList(<<makeVariable("X")>>, <<makeVariable("T")>>)>>)>>}

\* "_" + std::to_string(current_depth_) + "_" + std::to_string(rand())
RenameSuffixes == {"_1_0", "_2_7"}

InitRename ==
    /\ ResolverIdle
    /\ \E head \in RenameHeads, body \in RenameBodies, suffix \in RenameSuffixes :
          lab = [op |-> "rename", clause |-> makeRule(head, body), suffix |-> suffix,
                 done |-> FALSE, renamed |-> makeRule(head, body)]

\* ClausePtr renamed = clause->rename(suffix)
CallRename ==
    /\ lab.op = "rename" /\ ~lab.done
    /\ lab' = [lab EXCEPT !.done = TRUE, !.renamed = rename(lab.clause, lab.suffix)]
    /\ ResolverUnchanged

NextRename == CallRename

SpecRename == InitRename /\ [][NextRename]_vars

(* compareTerms driven directly: a client compares two dereferenced terms,  *)
(* each way round, as lessThan and greaterThan do.                          *)

CompareUniverse ==
    Leaves \cup Lists
        \cup {makeInteger(2), makeFloat(Double(3, 2)), makeFloat(Double(2, 1)),
              makeCompound("f", <<makeAtom("a")>>), makeCompound("f", <<makeAtom("b")>>),
              makeCompound("g", <<makeAtom("a"), makeAtom("b")>>),
              makeCompound("f", <<makeInteger(2)>>),
              makeCompound("f", <<makeFloat(Double(2, 1))>>)}

\* what a build makes of the undefined comparison
UndefinedOutcomes ==
    {[err |-> TRUE, c |-> 0]} \cup {[err |-> FALSE, c |-> c] : c \in {-1, 0, 1}}

InitCompare ==
    /\ ResolverIdle
    /\ \E t1 \in CompareUniverse, t2 \in CompareUniverse :
          lab = [op |-> "compare", t1 |-> t1, t2 |-> t2, done |-> FALSE,
                 forth |-> [err |-> FALSE, c |-> 0], back |-> [err |-> FALSE, c |-> 0]]

\* compareTerms(t1, t2) and compareTerms(t2, t1)
CallCompare ==
    /\ lab.op = "compare" /\ ~lab.done
    /\ \E u1 \in UndefinedOutcomes, u2 \in UndefinedOutcomes :
          lab' = [lab EXCEPT !.done = TRUE,
                             !.forth = compareTerms(lab.t1, lab.t2, u1),
                             !.back = compareTerms(lab.t2, lab.t1, u2)]
    /\ ResolverUnchanged

NextCompare == CallCompare

SpecCompare == InitCompare /\ [][NextCompare]_vars

-----------------------------------------------------------------------------
(* The interpreter's life: a program is loaded clause by clause            *)
(* (Database::addClause, clear), then a query is run, through solve or     *)
(* through solveWithCallback with a callback of the client.                *)

\* Resolver's constructor argument max_depth (default 1000)
max_depth_ == 4

\* the number of clauses loaded before the query
MaxClauses == 3

A == makeAtom("a")
B == makeAtom("b")
C == makeAtom("c")
X == makeVariable("X")
Y == makeVariable("Y")
Cut == makeAtom("!")
P(t) == makeCompound("p", <<t>>)
Q(t) == makeCompound("q", <<t>>)
AB == makeList(<<A, B>>, <<>>)

R(t) == makeCompound("r", <<t>>)
S(t) == makeCompound("s", <<t>>)
T(t, u) == makeCompound("t", <<t, u>>)
Eq(t, u) == makeCompound("eq", <<t, u>>)
F(t) == makeCompound("f", <<t>>)
Member(t, u) == makeCompound("member", <<t, u>>)
Unify(t, u) == makeCompound("=", <<t, u>>)
Not(t) == makeCompound("\\+", <<t>>)
Differ(t, u) == makeCompound("\\=", <<t, u>>)
F2(t, u) == makeCompound("f", <<t, u>>)
Z == makeAtom("z")
Fail == makeAtom("fail")
N == makeAtom("n")
Nil == makeList(<<>>, <<>>)
Ints(ns) == makeList([i \in 1..Len(ns) |-> makeInteger(ns[i])], <<>>)
AppendGoal(t, u, w) == makeCompound("append", <<t, u, w>>)
Var(name) == makeVariable(name)
Is(t, e) == makeCompound("is", <<t, e>>)
Op(name, l, r) == makeCompound(name, <<l, r>>)
Num(value) == makeInteger(value)
Length(t, u) == makeCompound("length", <<t, u>>)

\* the expressions evaluated: (10*2+5)/5 - 1, 2 + 3, 1.5 + 1.5, 7 / 2
ExprUniverse ==
    {Op("-", Op("/", Op("+", Op("*", Num(10), Num(2)), Num(5)), Num(5)), Num(1)),
     Op("+", Num(2), Num(3)),
     Op("+", makeFloat(Double(3, 2)), makeFloat(Double(3, 2))),
     Op("/", Num(7), Num(2))}
\* the variable named `_`
Anon == makeVariable("_")
W(t, u) == makeCompound("w", <<t, u>>)
G == makeAtom("g")
Q0 == makeAtom("q")
Top(t) == makeCompound("top", <<t>>)

\* single clauses a client adds
ClauseUniverse ==
    {makeFact(P(A)), makeFact(Eq(X, X)),
     makeRule(S(X), <<Member(X, AB), Cut>>),
     makeFact(W(Anon, Anon))}

\* the programs a client loads: as text through loadProgram, or clause by
\* clause through addClause
ProgramUniverse ==
    {<<makeFact(P(A)), makeFact(P(B)), makeRule(Q(X), <<P(X), Cut>>)>>,
     <<makeFact(P(A)), makeRule(Q(X), <<P(X), Cut>>), makeFact(Q(C))>>,
     <<makeRule(Q(X), <<Cut, Fail>>), makeFact(Q(A))>>,
     <<makeFact(P(A)), makeFact(P(B)), makeRule(R(X), <<P(X), P(Y), Cut>>)>>,
     <<makeFact(P(A)), makeFact(P(B)), makeRule(T(X, Y), <<P(X), P(Y)>>)>>,
     <<makeRule(N, <<N>>), makeFact(N)>>,
     <<makeFact(P(A)), makeFact(Q(C)), makeRule(G, <<P(Anon), Q(Anon)>>)>>,
     <<makeFact(Var("V")), makeFact(P(A))>>,
     <<makeFact(P(A)), makeFact(P(B)), makeRule(Q0, <<Cut>>)>>,
     <<makeRule(Q0, <<Cut>>), makeRule(Top(X), <<Member(X, AB), Q0>>), makeFact(Top(C))>>,
     <<makeFact(AppendGoal(Nil, Var("L"), Var("L"))),
       makeRule(AppendGoal(makeList(<<Var("H")>>, <<Var("T")>>), Var("L"),
                           makeList(<<Var("H")>>, <<Var("R")>>)),
                <<AppendGoal(Var("T"), Var("L"), Var("R"))>>)>>}

\* the goal lists a client asks
QueryUniverse ==
    {<<Is(X, e)>> : e \in ExprUniverse} \cup
    {<<P(X)>>, <<Q(X)>>, <<R(X)>>, <<S(X)>>, <<T(X, Y)>>, <<N>>,
     <<Eq(X, F(X))>>,
     <<Eq(X, Y)>>,
     <<W(A, B)>>,
     <<G>>,
     <<AppendGoal(X, Y, Ints(<<1, 2, 3>>))>>,
     <<Member(X, AB)>>,
     <<Member(X, AB), Unify(X, B)>>,
     <<Member(X, AB), P(X)>>,
     <<Length(X, Num(2))>>,
     <<Length(X, Num(1)), Length(Y, Num(1)), Unify(X, makeList(<<A>>, <<>>))>>,
     <<P(X), Q(X)>>,
     <<Differ(F2(X, A), F2(B, C)), Unify(X, Z)>>,
     <<Unify(X, Y), Unify(Y, A)>>,
     <<P(Anon)>>,
     <<X>>,
     <<Num(7)>>,
     <<P(X), Q0>>,
     <<P(X), Q0, P(Y)>>,
     <<Top(X)>>,
     <<Not(P(C))>>,
     <<Not(P(A))>>,
     <<Not(Unify(A, B))>>,
     <<Unify(X, F(X))>>}

\* the invocation at which the client's callback returns false
MaxStop == 2

\* the goals whose first argument is looked up in the first-argument index
LookupUniverse ==
    {P(A), P(C), Q(A), W(A, B), AppendGoal(Nil, X, Y),
     AppendGoal(makeList(<<Num(1)>>, <<>>), X, Y)}

Database ==
    [clauses |-> clauses_, index |-> index_, first_arg_index |-> first_arg_index_]

(* The parser.  A text is written here as the sequence of its clauses or   *)
(* goals, each a term as the author means it; the lexer and parser decide  *)
(* what term they make of it.                                              *)

\* names the lexer has no token for (parser.cpp 81-84: Token::INVALID)
OperatorNames == {"!", "=", "\\=", "\\+", "+", "-", "*", "/", "//"}

\* Parser::parseTerm succeeds on the written term
RECURSIVE Parses(_)
Parses(written) ==
    /\ written.k \in {"atom", "compound"} => written.n \notin OperatorNames
    /\ \A i \in 1..Len(written.a) : Parses(written.a[i])
    /\ \A i \in 1..Len(written.t) : Parses(written.t[i])

\* Parser::parseTerm: `_` starts an atom (Lexer::isAtomStart is tried before
\* isVariableStart, parser.cpp 68-73), every other term is built as written
RECURSIVE parseTerm(_)
parseTerm(written) ==
    IF written.k = "var" /\ written.n = "_" THEN makeAtom("_")
    ELSE [written EXCEPT !.a = [i \in 1..Len(written.a) |-> parseTerm(written.a[i])],
                         !.t = [i \in 1..Len(written.t) |-> parseTerm(written.t[i])]]

\* Parser::parseClause
parseClause(written) ==
    [head |-> parseTerm(written.head),
     body |-> [j \in 1..Len(written.body) |-> parseTerm(written.body[j])]]

\* Parser::parseProgram: [ok, clauses]; ok = FALSE when ParseException is thrown
parseProgram(text) ==
    IF \A i \in 1..Len(text) :
          /\ Parses(text[i].head)
          /\ \A j \in 1..Len(text[i].body) : Parses(text[i].body[j])
    THEN [ok |-> TRUE, clauses |-> [i \in 1..Len(text) |-> parseClause(text[i])]]
    ELSE [ok |-> FALSE, clauses |-> <<>>]

\* Parser::parseQuery: one call of parseTerm; the tokens after the first
\* term are left unread
parseQuery(text) == parseTerm(text[1])

\* a clear that forgets first_arg_index_.clear()
ClearedButFirstArgIndex ==
    [clauses |-> <<>>, index |-> EmptySubst, first_arg_index |-> first_arg_index_]

\* Database::clear: the three containers are emptied
EmptyDatabase ==
    [clauses |-> <<>>, index |-> EmptySubst, first_arg_index |-> EmptySubst]

\* Database::addClause as a function of the database
addClauseTo(db, clause) ==
    LET key == extractFunctorArity(clause.head)
        first_arg_key == extractFirstArgKey(clause.head)
    IN [clauses |-> Append(db.clauses, clause),
        index |-> IndexPush(db.index, key, Len(db.clauses)),
        first_arg_index |->
            IF first_arg_key # ""
            THEN IndexPush(db.first_arg_index, first_arg_key, Len(db.clauses))
            ELSE db.first_arg_index]

\* Database::loadProgram, lines 69-71: addClause for each clause, in order
RECURSIVE loadProgramTo(_, _, _)
loadProgramTo(db, program, i) ==
    IF i > Len(program) THEN db
    ELSE loadProgramTo(addClauseTo(db, program[i]), program, i + 1)

Init ==
    /\ clauses_ = <<>>
    /\ index_ = EmptySubst
    /\ first_arg_index_ = EmptySubst
    /\ current_depth_ = 0
    /\ termination_requested_ = FALSE
    /\ rand_calls = 0
    /\ run = RunIdle
    /\ previous = RunIdle
    /\ lab = LabIdle

SetDatabase(db) ==
    /\ clauses_' = db.clauses
    /\ index_' = db.index
    /\ first_arg_index_' = db.first_arg_index
    /\ UNCHANGED <<current_depth_, termination_requested_, rand_calls, run, previous, lab>>

\* Database::addClause
addClause(clause) ==
    /\ run.op = "idle"
    /\ Len(clauses_) < MaxClauses
    /\ SetDatabase(addClauseTo(Database, clause))

\* the client adds the clauses of a program one after another
addClauses(program) ==
    /\ run.op = "idle"
    /\ Len(clauses_) + Len(program) <= MaxClauses
    /\ SetDatabase(loadProgramTo(Database, program, 1))

\* Database::loadProgram(text): the text is parsed whole, then every clause
\* is added; a parse error is thrown before any clause is added
loadProgram(text) ==
    /\ run.op = "idle"
    /\ Len(clauses_) + Len(text) <= MaxClauses
    /\ SetDatabase(IF parseProgram(text).ok
                   THEN loadProgramTo(Database, parseProgram(text).clauses, 1)
                   ELSE Database)

\* Database::clear
clear ==
    /\ run.op = "idle"
    /\ clauses_ # <<>>
    /\ SetDatabase(EmptyDatabase)

\* The client asks a query of a loaded program.
MayAsk == run.op = "idle"

\* When the call has returned the client may ask the same query once more,
\* through solve.
MayAskAgain(goals) ==
    /\ run.op # "idle" /\ previous.op = "idle"
    /\ run.returned /\ run.goals = goals

\* what a finished query leaves in the resolver's fields and with the client
Finish(op, goals, stop_at, out, solutions) ==
    /\ current_depth_' = out.st.depth
    /\ termination_requested_' = out.st.term
    /\ rand_calls' = out.st.rnd
    /\ run' = [op |-> op, goals |-> goals, stop_at |-> stop_at, calls |-> out.st.calls,
               solutions |-> solutions, returned |-> ~out.st.dead, result |-> out.r,
               rnd0 |-> rand_calls, found |-> <<>>]
    /\ previous' = run
    /\ UNCHANGED <<clauses_, index_, first_arg_index_, lab>>

\* the collecting callback of Resolver::solve (resolver.cpp 16-21, 35-40)
FinishCollecting(op, goals, out, queryVariables) ==
    Finish(op, goals, 0, out,
           [i \in 1..Len(out.st.calls) |->
               filterBindings(out.st.calls[i].bindings, queryVariables)])

\* Resolver::solve(goals): every solution's bindings, filtered to the
\* query's variables, in the order the callback received them
solve(goals) ==
    /\ MayAsk \/ MayAskAgain(goals)
    /\ FinishCollecting("solve", goals,
                        solveWithCallback(Database, max_depth_, rand_calls, goals, 0),
                        collectFromTerms(goals, 1, <<>>))

\* Interpreter::query(query_string), the string written in functional
\* notation: `run` keeps the goals the client wrote
query(text) ==
    /\ MayAsk
    /\ Parses(text[1])
    /\ FinishCollecting("query", text,
                        solveWithCallback(Database, max_depth_, rand_calls,
                                          <<parseQuery(text)>>, 0),
                        collectFromTerms(<<parseQuery(text)>>, 1, <<>>))

\* Resolver::solveWithCallback(goals, callback) with the client's callback
solveStreaming(goals, stop_at) ==
    /\ MayAsk
    /\ LET out == solveWithCallback(Database, max_depth_, rand_calls, goals, stop_at)
       IN Finish("callback", goals, stop_at, out, <<>>)

\* Database::findClausesWithFirstArg(functor, arity, first_arg), the three
\* taken from a goal; `run` keeps what the lookup returned
findClausesWithFirstArg(goal) ==
    /\ MayAsk
    /\ clauses_ # <<>>
    /\ run' = [RunIdle EXCEPT !.op = "lookup", !.goals = <<goal>>,
                              !.found = findClausesWithFirstArgIn(Database, goal.n,
                                                                  Len(goal.a), goal.a[1])]
    /\ previous' = run
    /\ UNCHANGED <<clauses_, index_, first_arg_index_, current_depth_,
                   termination_requested_, rand_calls, lab>>

Next ==
    \/ \E clause \in ClauseUniverse : addClause(clause)
    \/ \E program \in ProgramUniverse : addClauses(program)
    \/ \E text \in ProgramUniverse : loadProgram(text)
    \/ clear
    \/ \E goals \in QueryUniverse : solve(goals)
    \/ \E text \in QueryUniverse : query(text)
    \/ \E goals \in QueryUniverse, stop_at \in 1..MaxStop : solveStreaming(goals, stop_at)
    \/ \E goal \in LookupUniverse : findClausesWithFirstArg(goal)

Spec == Init /\ [][Next]_vars

-----------------------------------------------------------------------------
(* Properties of the resolver *)

\* no variable is bound, directly or through a chain of bindings, to a term
\* that contains it
Acyclic(subst) ==
    \A x \in DOMAIN subst : ~Diverges(applySubstitution(makeVariable(x), subst))

\* the variable occurs in the term: in a compound argument, a list element
\* or a list tail, at any depth
RECURSIVE Contains(_, _)
Contains(term, var) ==
    \/ term = makeVariable(var)
    \/ \E i \in 1..Len(term.a) : Contains(term.a[i], var)
    \/ \E i \in 1..Len(term.t) : Contains(term.t[i], var)

Solved == run.op = "solve"

\* the clauses of predicate `functor`, in insertion order
ClausesOf(functor) == SelectSeq(clauses_, LAMBDA c : c.head.n = functor)

\* p/1 is defined by facts only: the argument of its first fact
FirstP == ClausesOf("p")[1].head.a[1]

Count(clause) == Cardinality({i \in 1..Len(clauses_) : clauses_[i] = clause})

Copies(n, solution) == [i \in 1..n |-> solution]

\* C1: once `!` is executed in the body of the clause selected for a goal, no
\* later clause of the goal's predicate is tried for that call: when the
\* first clause of q/1 is `q(X) :- !, fail` the query q(X) yields nothing,
\* and when it is `q(X) :- p(X), !` and p/1 has a fact, q(X) yields only the
\* first p, whatever clauses of q/1 follow.
C1_CutStopsLaterClauses ==
    (Solved /\ run.goals = <<Q(X)>> /\ ClausesOf("q") # <<>>) =>
        /\ ClausesOf("q")[1] = makeRule(Q(X), <<Cut, Fail>>) => run.solutions = <<>>
        /\ (ClausesOf("q")[1] = makeRule(Q(X), <<P(X), Cut>>) /\ ClausesOf("p") # <<>>)
               => run.solutions = <<"X" :> FirstP>>

\* the clause has the shape H :- G1, ..., Gn, ! with n >= 1 and no other cut
EndsWithCut(clause) ==
    /\ Len(clause.body) >= 2
    /\ \A j \in 1..Len(clause.body) : (clause.body[j] = Cut) <=> (j = Len(clause.body))

\* C2: a call to a predicate defined by the single clause H :- G1, ..., Gn, !
\* reports at most one solution, the first solution of G1, ..., Gn.
C2_CutDiscardsLeftAlternatives ==
    \A h \in {"q", "r", "s"} :
        (/\ Solved /\ run.goals = <<makeCompound(h, <<X>>)>>
         /\ Len(ClausesOf(h)) = 1 /\ EndsWithCut(ClausesOf(h)[1])) =>
            /\ Len(run.solutions) <= 1
            /\ (h # "s" /\ ClausesOf("p") # <<>>) => run.solutions = <<"X" :> FirstP>>

\* the ground goals negated by the queries, and whether each has a solution
NegatedGoals == {P(A), P(C), Unify(A, B)}

Provable(goal) == goal.n = "p" /\ Count(makeFact(goal)) > 0

\* C3: `\+ G` has exactly one solution, with no bindings, when G has no
\* solution under the database, and none when G has a solution, also when G
\* calls a user-defined predicate.
C3_NegationAsFailure ==
    \A goal \in NegatedGoals :
        (Solved /\ run.goals = <<Not(goal)>>) =>
            run.solutions = IF Provable(goal) THEN <<>> ELSE <<EmptySubst>>

\* C4: the solutions of `member(X, L), R` are, for each element of L in list
\* order, the solutions of R with X unified with the element; R failing for
\* one element does not stop the later elements from being tried.
C4_MemberIsBacktrackedInto ==
    /\ (Solved /\ run.goals = <<Member(X, AB), Unify(X, B)>>) =>
            run.solutions = <<"X" :> B>>
    /\ (Solved /\ run.goals = <<Member(X, AB), P(X)>>) =>
            run.solutions = Copies(Count(makeFact(P(A))), "X" :> A)
                                \o Copies(Count(makeFact(P(B))), "X" :> B)

\* a goal that calls a user-defined predicate
UserGoal(goal) ==
    /\ goal.k \in {"atom", "compound"}
    /\ goal # Cut
    /\ ~isBuiltin(goal.n, Len(goal.a))

\* the program and the query are made of user-defined predicates, without
\* cut and without `_`
UserProgram ==
    /\ \A i \in 1..Len(clauses_) :
          /\ UserGoal(clauses_[i].head) /\ ~Contains(clauses_[i].head, "_")
          /\ \A j \in 1..Len(clauses_[i].body) :
                UserGoal(clauses_[i].body[j]) /\ ~Contains(clauses_[i].body[j], "_")
    /\ \A j \in 1..Len(run.goals) : UserGoal(run.goals[j])

\* The successful leaves of the SLD tree of `goals`, depth-first, goals left
\* to right, clauses in insertion order, no deeper than max_depth_
\* resolution steps: [sols, rnd], the answer substitutions in the order
\* visited and the number of clause variants made so far.  Clause variants
\* are named as the resolver names them, and two terms unify when they
\* have a most general unifier, that is an acyclic one.
RECURSIVE SLDGoals(_, _, _, _)
RECURSIVE SLDClauses(_, _, _, _, _, _)
SLDClauses(i, goal, rest, bindings, depth, rnd) ==
    IF i > Len(clauses_) \/ depth + 1 > max_depth_
    THEN [sols |-> <<>>, rnd |-> rnd]
    ELSE IF extractFunctorArity(clauses_[i].head) # extractFunctorArity(goal)
    THEN SLDClauses(i + 1, goal, rest, bindings, depth, rnd)
    ELSE
    LET suffix == "_" \o ToString(depth + 1) \o "_" \o ToString(RandValue(rnd))
        variant == rename(clauses_[i], suffix)
        mgu == unify(goal, variant.head)
        unifies == mgu.ok /\ ~mgu.dead /\ Acyclic(mgu.s)
        theta == [x \in (DOMAIN bindings) \cup (DOMAIN mgu.s) |->
                     IF x \in DOMAIN bindings
                     THEN applySubstitution(bindings[x], mgu.s)
                     ELSE applySubstitution(mgu.s[x], mgu.s)]
        below == IF unifies
                 THEN SLDGoals(variant.body \o rest, theta, depth + 1, rnd + 1)
                 ELSE [sols |-> <<>>, rnd |-> rnd + 1]
        after == SLDClauses(i + 1, goal, rest, bindings, depth, below.rnd)
    IN [sols |-> below.sols \o after.sols, rnd |-> after.rnd]

SLDGoals(goals, bindings, depth, rnd) ==
    IF goals = <<>> THEN [sols |-> <<bindings>>, rnd |-> rnd]
    ELSE SLDClauses(1, applySubstitution(goals[1], bindings), Tail(goals),
                    bindings, depth, rnd)

\* the values of the query's variables under a sequence of answers
Answers(answers) ==
    LET queryVariables == collectFromTerms(run.goals, 1, <<>>)
    IN [i \in 1..Len(answers) |->
           [x \in {queryVariables[j] : j \in 1..Len(queryVariables)} |->
               applySubstitution(makeVariable(x), answers[i])]]

\* C5: for a program of user-defined clauses without cut, solve returns the
\* successful leaves of the SLD tree in depth-first order, goals left to
\* right and clauses in insertion order, none skipped and none duplicated.
C5_SolveIsDepthFirstSLD ==
    (Solved /\ UserProgram) =>
        /\ run.returned
        /\ Answers([i \in 1..Len(run.calls) |-> run.calls[i].bindings])
               = Answers(SLDGoals(run.goals, EmptySubst, 0, run.rnd0).sols)

AskedTwice ==
    /\ run.op = "solve" /\ previous.op = "solve"
    /\ previous.goals = run.goals /\ previous.returned /\ run.returned

\* C11: two runs of the same query against an equal database yield equal
\* solution sequences: as many solutions, in the same order, with equal
\* terms bound to every query variable, the names of unbound variables
\* inside them included.
C11_Deterministic == AskedTwice => run.solutions = previous.solutions

\* the program has the user clauses append([],L,L) and
\* append([H|T],L,[H|R]) :- append(T,L,R), in that order, and no other
\* clause of append/3
AppendLoaded ==
    ClausesOf("append")
        = <<makeFact(AppendGoal(Nil, Var("L"), Var("L"))),
            makeRule(AppendGoal(makeList(<<Var("H")>>, <<Var("T")>>), Var("L"),
                                makeList(<<Var("H")>>, <<Var("R")>>)),
                     <<AppendGoal(Var("T"), Var("L"), Var("R"))>>)>>

Split(xs, ys) == [x \in {"X", "Y"} |-> IF x = "X" THEN Ints(xs) ELSE Ints(ys)]

\* C12: with the user clauses of append/3 loaded, append(X,Y,[1,2,3]) yields
\* the four splits of [1,2,3], shortest X first.
C12_UserAppendSplits ==
    (Solved /\ AppendLoaded /\ run.goals = <<AppendGoal(X, Y, Ints(<<1, 2, 3>>))>>) =>
        /\ run.returned
        /\ Answers([i \in 1..Len(run.calls) |-> run.calls[i].bindings])
               = <<Split(<<>>, <<1, 2, 3>>), Split(<<1>>, <<2, 3>>),
                   Split(<<1, 2>>, <<3>>), Split(<<1, 2, 3>>, <<>>)>>

\* every clause of the predicate is a fact
FactsOnly(functor) ==
    \A i \in 1..Len(ClausesOf(functor)) : ClausesOf(functor)[i].body = <<>>

\* C13: the occurrences of `_` in a clause constrain each other in no way:
\* every fact w(_, _) matches the goal w(a, b), and the body p(_), q(_) is
\* solved once for every pair of a fact of p/1 and a fact of q/1.
C13_AnonymousVariablesAreDistinct ==
    /\ (Solved /\ run.goals = <<W(A, B)>>) =>
            Len(run.solutions) = Count(makeFact(W(Anon, Anon)))
    /\ (/\ Solved /\ run.goals = <<G>>
        /\ ClausesOf("g") = <<makeRule(G, <<P(Anon), Q(Anon)>>)>>
        /\ FactsOnly("p") /\ FactsOnly("q")) =>
            Len(run.solutions) = Len(ClausesOf("p")) * Len(ClausesOf("q"))

\* C14: Interpreter::query solves every goal written in its query string,
\* left to right: over a program of user-defined clauses its solutions are
\* those of the conjunction of all the goals.
C14_QueryIsConjunction ==
    (run.op = "query" /\ UserProgram /\ run.returned) =>
        run.solutions
            = Answers(SLDGoals([i \in 1..Len(run.goals) |-> parseTerm(run.goals[i])],
                               EmptySubst, 0, run.rnd0).sols)

\* every operand of the expression is an Integer and no operator is `/`
RECURSIVE IntegerTyped(_)
IntegerTyped(expr) ==
    IF expr.k = "compound"
    THEN expr.n # "/" /\ \A i \in 1..Len(expr.a) : IntegerTyped(expr.a[i])
    ELSE expr.k = "int"

\* C15: `X is E` binds X to an Integer when every operand in E is an Integer
\* and no operator is `/`, and to a Float otherwise.
C15_IsResultType ==
    \A e \in ExprUniverse :
        (Solved /\ run.goals = <<Is(X, e)>>) =>
            /\ Len(run.solutions) = 1
            /\ "X" \in DOMAIN run.solutions[1]
            /\ run.solutions[1]["X"].k = IF IntegerTyped(e) THEN "int" ELSE "float"

\* the term is a proper list of n pairwise distinct variables, none of them
\* a variable of the query
FreshList(term, n) ==
    /\ term.k = "list" /\ term.t = <<>> /\ Len(term.a) = n
    /\ \A i \in 1..n :
          /\ term.a[i].k = "var"
          /\ ~\E j \in 1..Len(run.goals) : Contains(run.goals[j], term.a[i].n)
    /\ \A i, j \in 1..n : term.a[i] = term.a[j] => i = j

RunAnswers == Answers([i \in 1..Len(run.calls) |-> run.calls[i].bindings])

\* C16: length(L, N) with L unbound and N >= 0 binds L to a list of N fresh
\* variables, distinct from each other, from the variables of the query and
\* from the variables made by another length/2 call of the query: after
\* length(X, 1), length(Y, 1), X = [a] the list Y still holds one unbound
\* variable.
C16_LengthMakesFreshVariables ==
    /\ (Solved /\ run.goals = <<Length(X, Num(2))>>) =>
            Len(run.calls) = 1 /\ FreshList(RunAnswers[1]["X"], 2)
    /\ (Solved /\ Len(run.goals) = 3 /\ run.goals[1] = Length(X, Num(1))
                /\ run.goals[2] = Length(Y, Num(1))) =>
            /\ Len(run.calls) = 1
            /\ RunAnswers[1]["X"] = makeList(<<A>>, <<>>)
            /\ FreshList(RunAnswers[1]["Y"], 1)

QueryVariables ==
    LET queryVariables == collectFromTerms(run.goals, 1, <<>>)
    IN {queryVariables[j] : j \in 1..Len(queryVariables)}

\* C17: every Solution delivered, as an element of the vector solve returns
\* or as the argument of the callback of solveWithCallback, has bindings only
\* for variables of the query.
C17_SolutionsBindQueryVariablesOnly ==
    /\ \A i \in 1..Len(run.solutions) : DOMAIN run.solutions[i] \subseteq QueryVariables
    /\ run.op = "callback" =>
            \A i \in 1..Len(run.calls) : DOMAIN run.calls[i].bindings \subseteq QueryVariables

\* some branch of the search selects a goal that has clauses when max_depth_
\* clauses have been resolved on the branch already
RECURSIVE Overruns(_, _, _)
Overruns(goals, bindings, depth) ==
    /\ goals # <<>>
    /\ LET goal == applySubstitution(goals[1], bindings)
       IN \E i \in 1..Len(clauses_) :
             /\ extractFunctorArity(clauses_[i].head) = extractFunctorArity(goal)
             /\ \/ depth + 1 > max_depth_
                \/ LET variant == rename(clauses_[i], "_" \o ToString(depth + 1))
                       mgu == unify(goal, variant.head)
                       theta == [x \in (DOMAIN bindings) \cup (DOMAIN mgu.s) |->
                                    IF x \in DOMAIN bindings
                                    THEN applySubstitution(bindings[x], mgu.s)
                                    ELSE applySubstitution(mgu.s[x], mgu.s)]
                   IN /\ mgu.ok /\ ~mgu.dead /\ Acyclic(mgu.s)
                      /\ Overruns(variant.body \o Tail(goals), theta, depth + 1)

Asked == run.op \in {"solve", "query", "callback"}

\* C22: for every database, query and depth limit, solveWithCallback
\* terminates: the depth guard caps the recursion, and every unification,
\* substitution application and composition made while resolving returns.
C22_SolveTerminates ==
    Asked => run.returned

\* C23: when T1 \= T2 succeeds, the remaining goals run under the
\* substitution in force before the call: f(X, a) \= f(b, c), X = z has the
\* one solution X = z.
C23_NotEqualLeavesNoBinding ==
    (Solved /\ run.goals = <<Differ(F2(X, A), F2(B, C)), Unify(X, Z)>>) =>
        /\ run.returned
        /\ Len(run.calls) = 1
        /\ RunAnswers[1]["X"] = Z

\* C24: in every Solution returned by solve the term bound to a query
\* variable holds no variable that the final substitution of the proof binds:
\* X = Y, Y = a reports X = a.
C24_SolutionsAreResolved ==
    (Solved /\ run.returned) =>
        \A i \in 1..Len(run.solutions) :
            \A x \in DOMAIN run.solutions[i], y \in DOMAIN run.calls[i].bindings :
                ~Contains(run.solutions[i][x], y)

\* C26: the variables collected for a query exclude the anonymous name `_`:
\* no Solution returned by solve has a binding whose key is `_`.
C26_NoBindingForAnonymous ==
    \A i \in 1..Len(run.solutions) : "_" \notin DOMAIN run.solutions[i]

\* the clause has `!` in its body
HasCut(clause) == \E j \in 1..Len(clause.body) : clause.body[j] = Cut

\* every `!` of the program opens the body of the only clause of its
\* predicate: such a cut has no choice point of its own clause or of earlier
\* body goals to discard
CutsAreLocal ==
    /\ \E i \in 1..Len(clauses_) : HasCut(clauses_[i])
    /\ \A i \in 1..Len(clauses_) :
          HasCut(clauses_[i]) =>
              /\ clauses_[i].body[1] = Cut
              /\ \A j \in 2..Len(clauses_[i].body) : clauses_[i].body[j] # Cut
              /\ \A k \in 1..Len(clauses_) :
                    extractFunctorArity(clauses_[k].head)
                        = extractFunctorArity(clauses_[i].head) => k = i
    /\ \A j \in 1..Len(run.goals) : run.goals[j] # Cut

\* the database with every `!` taken out of the clause bodies
WithoutCuts ==
    [Database EXCEPT !.clauses =
        [i \in 1..Len(clauses_) |->
            [clauses_[i] EXCEPT !.body = SelectSeq(@, LAMBDA goal : goal # Cut)]]]

-----------------------------------------------------------------------------
(* Properties of the database *)

\* every position of every list of the index is a position of the clause
\* store, and every list is strictly increasing
ValidIndex(index) ==
    \A key \in DOMAIN index :
        /\ \A i \in 1..Len(index[key]) : index[key][i] \in 0..(Len(clauses_) - 1)
        /\ \A i, j \in 1..Len(index[key]) : i < j => index[key][i] < index[key][j]

\* C18: after any sequence of addClause, loadProgram and clear, every position
\* stored in the predicate index or in the first-argument index is a valid
\* position of the clause store, every index list is strictly increasing, and
\* every position of the store is in exactly one predicate-index list.
C18_IndexesAreValid ==
    /\ ValidIndex(index_)
    /\ ValidIndex(first_arg_index_)
    /\ \A position \in 0..(Len(clauses_) - 1) :
          Cardinality({key \in DOMAIN index_ :
                          \E i \in 1..Len(index_[key]) : index_[key][i] = position}) = 1

\* a full store of two predicates, one of them with two clauses, and with
\* indexed first arguments
C18_FullStoreOfTwoPredicates ==
    /\ Len(clauses_) = MaxClauses
    /\ Cardinality(DOMAIN index_) = 2
    /\ \E key \in DOMAIN index_ : Len(index_[key]) >= 2
    /\ Cardinality(DOMAIN first_arg_index_) >= 2

\* the two terms have the same kind and value (atomic) or the same principal
\* functor and arity (compound)
SameFirstArg(t, u) ==
    /\ t.k = u.k /\ t.k \in {"atom", "int", "float", "compound"}
    /\ t.n = u.n /\ t.v = u.v /\ t.d = u.d /\ Len(t.a) = Len(u.a)

Looked == run.op = "lookup"

\* C19: for a predicate f/n and a non-variable term a, the clauses returned by
\* findClausesWithFirstArg(f, n, a), merged with the f/n clauses whose head
\* has a variable as first argument, include every f/n clause whose head can
\* unify with a goal of first argument a, and the lookup returns only clauses
\* whose first argument has a's kind and value or principal functor.
C19_FirstArgIndexIsSound ==
    Looked =>
        LET goal == run.goals[1]
            scan == findMatchingClauses(Database, goal)
            returned == {run.found[i] : i \in 1..Len(run.found)}
        IN /\ \A i \in 1..Len(scan) :
                 unify(scan[i].head.a[1], goal.a[1]).ok =>
                     scan[i] \in returned \/ scan[i].head.a[1].k = "var"
           /\ \A clause \in returned :
                 /\ extractFunctorArity(clause.head) = extractFunctorArity(goal)
                 /\ SameFirstArg(clause.head.a[1], goal.a[1])

\* the goals that are neither an Atom nor a Compound
NonCallable == {X, Num(7), makeFloat(Double(3, 2)), Nil, AB}

\* C28: findMatchingClauses returns no clause for a goal that is neither an
\* Atom nor a Compound, whatever clauses the database holds, and a query
\* made of such a goal has no solution.
C28_NonCallableGoalFails ==
    /\ \A goal \in NonCallable : findMatchingClauses(Database, goal) = <<>>
    /\ (Asked /\ run.goals[1].k \notin {"atom", "compound"}) => run.calls = <<>>

-----------------------------------------------------------------------------
(* Properties of Clause::rename *)

\* the names of the variable occurrences of a term, left to right
RECURSIVE Occurrences(_)
OccurrencesOf(terms) ==
    LET RECURSIVE Join(_)
        Join(i) == IF i > Len(terms) THEN <<>> ELSE Occurrences(terms[i]) \o Join(i + 1)
    IN Join(1)

Occurrences(term) ==
    CASE term.k = "var" -> <<term.n>>
      [] term.k = "compound" -> OccurrencesOf(term.a)
      [] term.k = "list" -> OccurrencesOf(term.a) \o OccurrencesOf(term.t)
      [] OTHER -> <<>>

\* the term with the names of its variables blanked
RECURSIVE Skeleton(_)
Skeleton(term) ==
    CASE term.k = "var" -> makeVariable("")
      [] term.k \in {"compound", "list"} ->
            [term EXCEPT !.a = [i \in 1..Len(term.a) |-> Skeleton(term.a[i])],
                         !.t = [i \in 1..Len(term.t) |-> Skeleton(term.t[i])]]
      [] OTHER -> term

ClauseOccurrences(clause) == OccurrencesOf(<<clause.head>> \o clause.body)

ClauseSkeleton(clause) ==
    [i \in 1..(Len(clause.body) + 1) |-> Skeleton((<<clause.head>> \o clause.body)[i])]

Renamed == lab.op = "rename" /\ lab.done

\* C21: rename(suffix) returns a clause of the same structure in which two
\* variable occurrences have the same name iff they had the same name in the
\* original, every name being the original name with the suffix appended.
C21_RenamePreservesSharing ==
    Renamed =>
        LET before == ClauseOccurrences(lab.clause)
            after == ClauseOccurrences(lab.renamed)
        IN /\ ClauseSkeleton(lab.renamed) = ClauseSkeleton(lab.clause)
           /\ Len(after) = Len(before)
           /\ \A i \in 1..Len(before) : after[i] = before[i] \o lab.suffix
           /\ \A i, j \in 1..Len(before) : (after[i] = after[j]) <=> (before[i] = before[j])

\* a renamed clause with a shared variable, two distinct ones and a list tail
C21_RenamedSharedAndTail ==
    /\ Renamed
    /\ lab.clause.head.k = "compound" /\ lab.clause.head.a[1].k = "list"
    /\ lab.clause.head.a[1].t # <<>>
    /\ \E i, j \in 1..Len(ClauseOccurrences(lab.clause)) :
          i # j /\ ClauseOccurrences(lab.clause)[i] = ClauseOccurrences(lab.clause)[j]
    /\ lab.clause.body # <<>>

-----------------------------------------------------------------------------
(* Properties of the unification library *)

UnifySucceeded == lab.op = "unify" /\ lab.done /\ lab.ok

\* C7: whenever unify(t1, t2, S) succeeds with S', applying S' to t1 and to t2
\* gives structurally equal terms.
C7_UnifiersUnify ==
    UnifySucceeded =>
        /\ ~Diverges(applySubstitution(lab.t1, lab.out))
        /\ ~Diverges(applySubstitution(lab.t2, lab.out))
        /\ applySubstitution(lab.t1, lab.out) = applySubstitution(lab.t2, lab.out)

\* C8: every substitution produced by a successful unify that started from
\* an acyclic substitution is acyclic.
C8_UnifyKeepsAcyclic ==
    (UnifySucceeded /\ Acyclic(lab.s1)) => Acyclic(lab.out)

\* unify(v, u) from the empty substitution, u other than v and containing v
OccursCase ==
    /\ lab.op = "unify" /\ lab.done /\ lab.s1 = EmptySubst
    /\ lab.t1.k = "var" /\ lab.t2 # lab.t1 /\ Contains(lab.t2, lab.t1.n)

\* C9: unify(v, u) from the empty substitution fails for every variable v
\* and every term u other than v that contains v, in a compound argument, a
\* list element or a list tail; and the query X = f(X) has no solution.
C9_OccursCheckFails ==
    OccursCase =>
        /\ ~lab.ok /\ ~lab.dead
        /\ solveWithCallback(EmptyDatabase, max_depth_, 0, <<Unify(X, F(X))>>, 0).st.calls
               = <<>>

\* v occurs in u only in the tail of a list
C9_OccursInListTail ==
    /\ OccursCase /\ ~lab.ok
    /\ lab.t2.k = "list" /\ Len(lab.t2.t) = 1
    /\ Contains(lab.t2.t[1], lab.t1.n)
    /\ \A i \in 1..Len(lab.t2.a) : ~Contains(lab.t2.a[i], lab.t1.n)

\* C10: applying compose(s1, s2) to t gives the same term as applying s1 to
\* t and then s2 to the result.
C10_ComposeIsSequential ==
    (lab.op = "compose" /\ lab.done) =>
        applySubstitution(lab.t1, lab.out)
            = applySubstitution(applySubstitution(lab.t1, lab.s1), lab.s2)

\* C25: a list pattern with an explicit tail unifies with every list of
\* which it denotes a prefix: [X|Y] unifies with a proper list of n >= 1
\* elements, X bound to the first element and Y to the list of the others.
C25_ListPatternMatchesPrefix ==
    (/\ lab.op = "unify" /\ lab.done /\ lab.s1 = EmptySubst
     /\ lab.t1 = makeList(<<makeVariable("X")>>, <<makeVariable("Y")>>)
     /\ lab.t2.k = "list" /\ lab.t2.t = <<>> /\ Len(lab.t2.a) >= 1
     /\ ~Contains(lab.t2, "X") /\ ~Contains(lab.t2, "Y")) =>
        /\ lab.ok /\ ~lab.dead
        /\ applySubstitution(makeVariable("X"), lab.out) = lab.t2.a[1]
        /\ applySubstitution(makeVariable("Y"), lab.out) = makeList(Tail(lab.t2.a), <<>>)

-----------------------------------------------------------------------------
(* Properties of compareTerms *)

\* C27: the comparison under <, >, =< and >= is a total order on all terms:
\* for any two terms, an Integer and a Float included, it returns without
\* error, and a < b holds iff b > a holds (and a = b iff b = a).
C27_CompareIsTotal ==
    (lab.op = "compare" /\ lab.done) =>
        /\ ~lab.forth.err /\ ~lab.back.err
        /\ (lab.forth.c < 0) <=> (lab.back.c > 0)
        /\ (lab.forth.c = 0) <=> (lab.back.c = 0)

-----------------------------------------------------------------------------
(* Properties of the resolver's fields *)

\* Resolver::Resolver (resolver.h 49) followed by the query: the run of a
\* resolver constructed for this query alone, in a process that has not
\* called rand()
FreshRun ==
    solveGoals([db |-> Database, max_depth |-> max_depth_, stop_at |-> run.stop_at],
               run.goals, EmptySubst,
               [depth |-> 0, term |-> FALSE, rnd |-> 0, calls |-> <<>>, dead |-> FALSE])

\* what the callback received: the term of every query variable in every
\* solution, in order, the names of unbound variables left aside
Reported(calls) ==
    [i \in 1..Len(calls) |->
        [x \in QueryVariables |->
            Skeleton(applySubstitution(makeVariable(x), calls[i].bindings))]]

\* the query follows an earlier query on the same Resolver
AskedAfterAnother ==
    /\ run.op = "solve" /\ run.returned
    /\ previous.op \in {"solve", "query", "callback"} /\ previous.returned

\* C30: each call of solve or solveWithCallback starts from a clean state:
\* whatever an earlier query left in the fields, one stopped by its callback,
\* ended by a cut or cut short by the depth limit included, the call starts
\* with the depth counter at 0 and the termination flag clear; the counter is
\* back at 0 when a call returns; and a later query reports as many
\* solutions, in the same order, as a freshly constructed Resolver over the
\* same database.
C30_EachCallStartsClean ==
    /\ FieldsReset(current_depth_, termination_requested_) = [depth |-> 0, term |-> FALSE]
    /\ (Asked /\ run.returned) => current_depth_ = 0
    /\ AskedAfterAnother =>
          /\ ~FreshRun.st.dead
          /\ Reported(run.calls) = Reported(FreshRun.st.calls)

\* p(X) was stopped by its callback at the first solution, the flag was left
\* set, and the same resolver then solved p(X) and reported both facts
C30_SolvedAfterStoppedQuery ==
    /\ AskedAfterAnother
    /\ previous.op = "callback" /\ Len(previous.calls) = previous.stop_at
    /\ run.goals = <<P(X)>>
    /\ Len(previous.calls) = 1 /\ Len(run.calls) = 2
    /\ RunAnswers = <<[X |-> A], [X |-> B]>>

====
